---- MODULE Spec2Model ----
(***************************************************************************)
(* FirebaseManager (src/firebase_manager.py): the process-wide singleton   *)
(* and its initialize handler, together with the part of the firebase_admin*)
(* SDK state the handler reads and writes (the app registry _apps and the  *)
(* per-app service cache).                                                 *)
(*                                                                         *)
(* Spec      : callers issue whole operations one after another.           *)
(* SpecConc  : NThreads threads run FirebaseManager() and then initialize  *)
(*             with valid credentials, interleaved at the granularity of   *)
(*             attribute reads/writes and SDK calls; the SDK calls are not *)
(*             refused from outside (Spec covers those faults).            *)
(***************************************************************************)
EXTENDS Integers, Sequences, FiniteSets, TLC

VARIABLES
    _instance,   \* FirebaseManager._instance: 0 (None) or an index into objs
    objs,        \* heap of FirebaseManager objects ever allocated
    _apps,       \* firebase_admin._apps: <<>> or <<the default app>>
    last,        \* observation of the last completed operation
    calls,       \* number of initialize calls started
    hsAttempts,  \* number of firebase_admin.initialize_app invocations
    hsFailed,    \* TRUE once an invocation failed at network level
    certPassed,  \* TRUE once credentials.Certificate returned a credential
    seen,        \* {<<cause, exception type>>} of the failures observed
    pc,          \* per thread: position in FirebaseManager() / initialize
    loc          \* per thread: local variables

vars == <<_instance, objs, _apps, last, calls, hsAttempts, hsFailed,
          certPassed, seen, pc, loc>>

----------------------------------------------------------------------------
(* Bounds *)

MaxCalls == 3
NThreads == 2

----------------------------------------------------------------------------
(* Values *)

None == 0
Absent == "<absent>"       \* the key is not in the firebase_config dict

\* "" is the value FirebaseConfig.from_env gives a field whose environment
\* variable is unset (src/config.py, os.getenv(..., ''))

ProjectIds   == {Absent, "", "P1", "P2"}
PrivateKeys  == {Absent, "", "BAD", "KEY"}   \* "BAD": not a parsable PEM key
ClientEmails == {Absent, "", "sa@iam"}

Configs == [project_id : ProjectIds, private_key : PrivateKeys,
            client_email : ClientEmails]

NoConfig == [project_id |-> Absent, private_key |-> Absent,
             client_email |-> Absent]

ValidConfigs == {c \in Configs : c.project_id \in {"P1", "P2"}
                                 /\ c.private_key = "KEY"
                                 /\ c.client_email = "sa@iam"}

\* what the SDK calls find outside the program during one initialize call:
\* at most one of the handshake, the client construction and the database
\* service construction is refused, with exception exc; project: whether
\* the environment (GOOGLE_CLOUD_PROJECT) names a project
Stages == {"handshake", "firestore", "reference"}
Envs == {e \in [at : Stages \cup {"none"},
               exc : {"ok", "FirebaseError", "OSError"}, project : BOOLEAN] :
            (e.at = "none") <=> (e.exc = "ok")}

At(env, stage) == IF env.at = stage THEN env.exc ELSE "ok"

Keys      == {"k1"}
Callbacks == {"cb1", "cb2"}

----------------------------------------------------------------------------
(* FirebaseManager objects *)

\* an object as super().__new__(cls) returns it: _initialized is read from
\* the class attribute (False); the other attributes are bound by __init__
NewObject == [_initialized |-> FALSE, app |-> None, firestore_client |-> None,
              realtime_db |-> None, _listeners |-> <<>>]

InitAlways(o) == [o EXCEPT !.app = None, !.firestore_client = None,
                           !.realtime_db = None, !._listeners = <<>>,
                           !._initialized = TRUE]

\* __init__: binds the attributes unless this object was initialised before
__init__(o) ==
    IF ~o._initialized
    THEN [o EXCEPT !.app = None, !.firestore_client = None,
                   !.realtime_db = None, !._listeners = <<>>,
                   !._initialized = TRUE]
    ELSE o

Handle(o) == <<o.app, o.firestore_client, o.realtime_db>>

NoHandle == <<None, None, None>>

----------------------------------------------------------------------------
(* initialize: the steps of the handler *)

required_keys_short == <<"project_id", "private_key">>

\* required_keys = ['project_id', 'private_key', 'client_email']
required_keys == <<"project_id", "private_key", "client_email">>

\* for key in required_keys: if key not in firebase_config: raise ValueError
\* result: index of the first missing key, 0 when none is missing
MissingKey(cfg) ==
    LET miss == {i \in 1..Len(required_keys) : cfg[required_keys[i]] = Absent}
    IN IF miss = {} THEN 0
       ELSE CHOOSE i \in miss : \A j \in miss : i <= j

\* cred_dict = {... firebase_config['project_id'] ...}: a subscript of a key
\* the dict lacks raises KeyError
CredDictRaises(cfg) ==
    \E k \in {"project_id", "private_key", "client_email"} : cfg[k] = Absent

\* credentials.Certificate(cred_dict): parses private_key with the RSA
\* signer and raises ValueError when it is not a key; project_id and
\* client_email are only stored
CertificateRejects(cfg) == cfg.private_key # "KEY"

AlwaysHandshake(apps) == TRUE

\* if not firebase_admin._apps

NoApps(apps) == apps = <<>>

\* firebase_admin.initialize_app(cred, {'projectId': ..}): registers the
\* default app; ValueError when the default app already exists
\* result: <<exception or "ok", the registry afterwards>>
initialize_app(apps, project, outcome) ==
    IF apps # <<>> THEN <<"ValueError", apps>>
    ELSE IF outcome # "ok" THEN <<outcome, apps>>
    ELSE <<"ok", <<[id |-> 1, project |-> project,
                    fs |-> FALSE, db |-> FALSE]>>>>

get_app_other(apps) == apps[1].id + 1

\* firebase_admin.get_app(): the default app
get_app(apps) == apps[1].id

\* firestore.client(): the default app's cached client; the first call
\* builds it, which needs a project id: ValueError when the app's options
\* and credential give none and the environment (GOOGLE_CLOUD_PROJECT)
\* names none either
\* result: <<exception or "ok", the registry afterwards, the client>>
firestore_client(apps, envProject, outcome) ==
    IF apps[1].fs THEN <<"ok", apps, apps[1].id>>
    ELSE IF apps[1].project = "" /\ ~envProject THEN <<"ValueError", apps, None>>
    ELSE IF outcome # "ok" THEN <<outcome, apps, None>>
    ELSE <<"ok", [apps EXCEPT ![1].fs = TRUE], apps[1].id>>

\* db.reference(): a root reference of the default app's database service;
\* the first call builds the service from the databaseURL option
\* result: <<exception or "ok", the registry afterwards, the reference>>
db_reference(apps, outcome) ==
    IF apps[1].db THEN <<"ok", apps, apps[1].id>>
    ELSE IF outcome # "ok" THEN <<outcome, apps, None>>
    ELSE <<"ok", [apps EXCEPT ![1].db = TRUE], apps[1].id>>

\* the except clause that logs the exception before re-raising it
Handler(exc) ==
    IF exc = "ValueError" THEN "Configuration validation failed"
    ELSE IF exc = "FirebaseError" THEN "Firebase initialization failed"
    ELSE "Unexpected error during Firebase initialization"

\* what one initialize call leaves: the object, the registry, the exception
\* raised ("ok": returned True) and where; certCalled: credentials.Certificate
\* was called; handshake: initialize_app was invoked
Outcome(o, apps, exc, cause, cert, hs) ==
    [obj |-> o, apps |-> apps, exc |-> exc, cause |-> cause,
     certCalled |-> cert, handshake |-> hs]

\* initialize, lines 85-90: the two clients, then return True
RunDerive(o, apps, hsDone, env) ==
    LET f == firestore_client(apps, env.project, At(env, "firestore"))
    IN IF f[1] # "ok"
       THEN Outcome(o, apps, f[1], "firestore", TRUE, hsDone)
       ELSE LET o2 == [o EXCEPT !.firestore_client = f[3]]
                d  == db_reference(f[2], At(env, "reference"))
            IN IF d[1] # "ok"
               THEN Outcome(o2, f[2], d[1], "reference", TRUE, hsDone)
               ELSE Outcome([o2 EXCEPT !.realtime_db = d[3]], d[2],
                            "ok", "none", TRUE, hsDone)

\* FirebaseManager.initialize(firebase_config) run from start to end on the
\* object o; env is what the SDK calls find outside the program
RunInitialize(o, apps, cfg, env) ==
    IF MissingKey(cfg) # 0
    THEN Outcome(o, apps, "ValueError", "missing_key", FALSE, FALSE)
    ELSE IF CredDictRaises(cfg)
    THEN Outcome(o, apps, "KeyError", "cred_dict", FALSE, FALSE)
    ELSE IF CertificateRejects(cfg)
    THEN Outcome(o, apps, "ValueError", "certificate", TRUE, FALSE)
    ELSE IF NoApps(apps)
    THEN LET h == initialize_app(apps, cfg.project_id, At(env, "handshake"))
         IN IF h[1] # "ok"
            THEN Outcome(o, apps, h[1],
                         IF h[2] # <<>> THEN "app_exists" ELSE "handshake",
                         TRUE, TRUE)
            ELSE RunDerive([o EXCEPT !.app = h[2][1].id], h[2], TRUE, env)
    ELSE RunDerive([o EXCEPT !.app = get_app(apps)], apps, FALSE, env)

----------------------------------------------------------------------------
(* Initial state *)

Threads == 1..NThreads

NoLocals == [self |-> None, seesNone |-> FALSE, didInit |-> FALSE,
             cfg |-> NoConfig, called |-> FALSE, noApps |-> FALSE,
             appval |-> None,
             wrote |-> FALSE, exc |-> "ok"]

NoOp == [op |-> "none", cfg |-> NoConfig, exc |-> "ok", cause |-> "none",
         log |-> "", certCalled |-> FALSE, handshake |-> FALSE,
         pre |-> NewObject, preApps |-> <<>>, ret |-> None]

Init ==
    /\ _instance = None
    /\ objs = <<>>
    /\ _apps = <<>>
    /\ last = NoOp
    /\ calls = 0
    /\ hsAttempts = 0
    /\ hsFailed = FALSE
    /\ certPassed = FALSE
    /\ seen = {}
    /\ pc = [t \in Threads |-> "idle"]
    /\ loc = [t \in Threads |-> NoLocals]

----------------------------------------------------------------------------
(* Operations issued one after another *)

\* FirebaseManager(): __new__ then __init__ on the object __new__ returned
Construct ==
    LET fresh == _instance = None
        heap  == IF fresh THEN Append(objs, NewObject) ELSE objs
        inst  == IF fresh THEN Len(heap) ELSE _instance
    IN /\ _instance' = inst
       /\ objs' = [heap EXCEPT ![inst] = __init__(heap[inst])]
       /\ last' = [NoOp EXCEPT !.op = "construct", !.ret = inst,
                               !.pre = heap[inst], !.preApps = _apps]
       /\ UNCHANGED <<_apps, calls, hsAttempts, hsFailed, certPassed, seen,
                      pc, loc>>

\* manager.initialize(cfg) on the singleton
Initialize ==
    /\ _instance # None
    /\ calls < MaxCalls
    /\ \E cfg \in Configs, env \in Envs :
       \E r \in {RunInitialize(objs[_instance], _apps, cfg, env)} :
            /\ objs' = [objs EXCEPT ![_instance] = r.obj]
            /\ _apps' = r.apps
            /\ last' = [op |-> "initialize", cfg |-> cfg, exc |-> r.exc,
                        cause |-> r.cause,
                        log |-> IF r.exc = "ok" THEN "" ELSE Handler(r.exc),
                        certCalled |-> r.certCalled,
                        handshake |-> r.handshake,
                        pre |-> objs[_instance], preApps |-> _apps,
                        ret |-> _instance]
            /\ calls' = calls + 1
            /\ hsAttempts' = hsAttempts + (IF r.handshake THEN 1 ELSE 0)
            /\ hsFailed' = (hsFailed \/ r.cause = "handshake")
            /\ certPassed' = (certPassed
                              \/ (r.certCalled /\ r.cause # "certificate"))
            /\ seen' = IF r.exc = "ok" THEN seen
                       ELSE seen \cup {<<r.cause, r.exc>>}
    /\ UNCHANGED <<_instance, pc, loc>>

\* the manager is Ready: initialize has run to its end
Ready(o) == o.app # None /\ o.firestore_client # None /\ o.realtime_db # None

\* manager.subscribe(key, path, on_change): registers the listener under
\* key, replacing the one registered before; NotInitializedError unless the
\* manager is Ready
Subscribe ==
    /\ _instance # None
    /\ \E k \in Keys, cb \in Callbacks :
         LET o == objs[_instance]
         IN /\ objs' = IF Ready(o)
                       THEN [objs EXCEPT ![_instance]._listeners =
                                [x \in (DOMAIN o._listeners) \cup {k} |->
                                    IF x = k THEN cb ELSE o._listeners[x]]]
                       ELSE objs
            /\ last' = [NoOp EXCEPT !.op = "subscribe",
                           !.exc = IF Ready(o) THEN "ok"
                                   ELSE "NotInitializedError",
                           !.pre = o, !.preApps = _apps, !.ret = _instance]
    /\ UNCHANGED <<_instance, _apps, calls, hsAttempts, hsFailed, certPassed,
                   seen, pc, loc>>

Next == Construct \/ Initialize \/ Subscribe

Spec == Init /\ [][Next]_vars

----------------------------------------------------------------------------
(* Threads: FirebaseManager() and then initialize, step by step *)

Goto(t, label) == pc' = [pc EXCEPT ![t] = label]

SeqVars == <<last, calls, hsFailed, certPassed, seen>>

\* __new__: if cls._instance is None
NewCheck(t) ==
    /\ pc[t] = "idle"
    /\ loc' = [loc EXCEPT ![t].seesNone = (_instance = None)]
    /\ Goto(t, "new_assign")
    /\ UNCHANGED <<_instance, objs, _apps, hsAttempts, SeqVars>>

\* __new__: cls._instance = super().__new__(cls)
NewAssign(t) ==
    /\ pc[t] = "new_assign"
    /\ IF loc[t].seesNone
       THEN /\ objs' = Append(objs, NewObject)
            /\ _instance' = Len(objs) + 1
       ELSE UNCHANGED <<objs, _instance>>
    /\ Goto(t, "new_return")
    /\ UNCHANGED <<_apps, hsAttempts, loc, SeqVars>>

\* __new__: return cls._instance
NewReturn(t) ==
    /\ pc[t] = "new_return"
    /\ loc' = [loc EXCEPT ![t].self = _instance]
    /\ Goto(t, "init_check")
    /\ UNCHANGED <<_instance, objs, _apps, hsAttempts, SeqVars>>

\* __init__: if not self._initialized
InitCheck(t) ==
    /\ pc[t] = "init_check"
    /\ IF ~objs[loc[t].self]._initialized
       THEN /\ loc' = [loc EXCEPT ![t].didInit = TRUE]
            /\ Goto(t, "init_app")
       ELSE /\ Goto(t, "constructed")
            /\ UNCHANGED loc
    /\ UNCHANGED <<_instance, objs, _apps, hsAttempts, SeqVars>>

\* __init__: self.app = None
InitApp(t) ==
    /\ pc[t] = "init_app"
    /\ objs' = [objs EXCEPT ![loc[t].self].app = None]
    /\ Goto(t, "init_firestore")
    /\ UNCHANGED <<_instance, _apps, hsAttempts, loc, SeqVars>>

\* __init__: self.firestore_client = None
InitFirestore(t) ==
    /\ pc[t] = "init_firestore"
    /\ objs' = [objs EXCEPT ![loc[t].self].firestore_client = None]
    /\ Goto(t, "init_realtime")
    /\ UNCHANGED <<_instance, _apps, hsAttempts, loc, SeqVars>>

\* __init__: self.realtime_db = None
InitRealtime(t) ==
    /\ pc[t] = "init_realtime"
    /\ objs' = [objs EXCEPT ![loc[t].self].realtime_db = None]
    /\ Goto(t, "init_listeners")
    /\ UNCHANGED <<_instance, _apps, hsAttempts, loc, SeqVars>>

\* __init__: self._listeners = {}
InitListeners(t) ==
    /\ pc[t] = "init_listeners"
    /\ objs' = [objs EXCEPT ![loc[t].self]._listeners = <<>>]
    /\ Goto(t, "init_flag")
    /\ UNCHANGED <<_instance, _apps, hsAttempts, loc, SeqVars>>

\* __init__: self._initialized = True
InitFlag(t) ==
    /\ pc[t] = "init_flag"
    /\ objs' = [objs EXCEPT ![loc[t].self]._initialized = TRUE]
    /\ Goto(t, "constructed")
    /\ UNCHANGED <<_instance, _apps, hsAttempts, loc, SeqVars>>

\* initialize: validation, cred_dict and credentials.Certificate, which
\* touch nothing shared
Validate(t) ==
    /\ pc[t] = "constructed"
    /\ \E cfg \in ValidConfigs :
         /\ loc' = [loc EXCEPT ![t].cfg = cfg,
                       ![t].called = TRUE,
                       ![t].exc = IF MissingKey(cfg) # 0 THEN "ValueError"
                                  ELSE IF CredDictRaises(cfg) THEN "KeyError"
                                  ELSE IF CertificateRejects(cfg)
                                  THEN "ValueError" ELSE "ok"]
         /\ Goto(t, IF loc'[t].exc = "ok" THEN "apps_check" ELSE "done")
    /\ UNCHANGED <<_instance, objs, _apps, hsAttempts, SeqVars>>

\* initialize: if not firebase_admin._apps
AppsCheck(t) ==
    /\ pc[t] = "apps_check"
    /\ loc' = [loc EXCEPT ![t].noApps = NoApps(_apps)]
    /\ Goto(t, "get_handle")
    /\ UNCHANGED <<_instance, objs, _apps, hsAttempts, SeqVars>>

\* initialize: firebase_admin.initialize_app(...) or firebase_admin.get_app()
GetHandle(t) ==
    /\ pc[t] = "get_handle"
    /\ IF loc[t].noApps
       THEN LET h == initialize_app(_apps, loc[t].cfg.project_id, "ok")
            IN /\ _apps' = h[2]
               /\ hsAttempts' = hsAttempts + 1
               /\ loc' = [loc EXCEPT ![t].exc = h[1],
                             ![t].appval = IF h[1] = "ok" THEN h[2][1].id
                                           ELSE None]
               /\ Goto(t, IF h[1] = "ok" THEN "set_app" ELSE "done")
       ELSE /\ loc' = [loc EXCEPT ![t].appval = get_app(_apps)]
            /\ Goto(t, "set_app")
            /\ UNCHANGED <<_apps, hsAttempts>>
    /\ UNCHANGED <<_instance, objs, SeqVars>>

\* initialize: self.app = <the handle>
SetApp(t) ==
    /\ pc[t] = "set_app"
    /\ objs' = [objs EXCEPT ![loc[t].self].app = loc[t].appval]
    /\ loc' = [loc EXCEPT ![t].wrote = TRUE]
    /\ Goto(t, "set_firestore")
    /\ UNCHANGED <<_instance, _apps, hsAttempts, SeqVars>>

\* initialize: self.firestore_client = firestore.client()
SetFirestore(t) ==
    /\ pc[t] = "set_firestore"
    /\ LET f == firestore_client(_apps, FALSE, "ok")
       IN /\ _apps' = f[2]
          /\ loc' = [loc EXCEPT ![t].exc = f[1]]
          /\ IF f[1] = "ok"
             THEN /\ objs' = [objs EXCEPT
                                 ![loc[t].self].firestore_client = f[3]]
                  /\ Goto(t, "set_realtime")
             ELSE /\ Goto(t, "done")
                  /\ UNCHANGED objs
    /\ UNCHANGED <<_instance, hsAttempts, SeqVars>>

\* initialize: self.realtime_db = db.reference(); return True
SetRealtime(t) ==
    /\ pc[t] = "set_realtime"
    /\ LET d == db_reference(_apps, "ok")
       IN /\ _apps' = d[2]
          /\ loc' = [loc EXCEPT ![t].exc = d[1]]
          /\ objs' = IF d[1] = "ok"
                     THEN [objs EXCEPT ![loc[t].self].realtime_db = d[3]]
                     ELSE objs
    /\ Goto(t, "done")
    /\ UNCHANGED <<_instance, hsAttempts, SeqVars>>

NextConc ==
    \E t \in Threads :
        \/ NewCheck(t) \/ NewAssign(t) \/ NewReturn(t)
        \/ InitCheck(t) \/ InitApp(t) \/ InitFirestore(t) \/ InitRealtime(t)
        \/ InitListeners(t) \/ InitFlag(t)
        \/ Validate(t) \/ AppsCheck(t) \/ GetHandle(t)
        \/ SetApp(t) \/ SetFirestore(t) \/ SetRealtime(t)

SpecConc == Init /\ [][NextConc]_vars

----------------------------------------------------------------------------
(* Properties *)

Manager == objs[_instance]

AfterInitialize == last.op = "initialize"

AllPresent(cfg) ==
    cfg.project_id # Absent /\ cfg.private_key # Absent
    /\ cfg.client_email # Absent

HasEmpty(cfg) ==
    cfg.project_id = "" \/ cfg.private_key = "" \/ cfg.client_email = ""

\* C1: over initialize calls made one after another, as long as no handshake
\* is refused from outside, initialize_app is invoked exactly once (by the
\* first call that gets a credential); a call that finds the app registered
\* invokes no handshake, leaves the registry as it was, and the manager
\* holds the handle the first handshake produced
C1_SingleHandshake ==
    /\ (certPassed /\ ~hsFailed) => (hsAttempts = 1 /\ Len(_apps) = 1)
    /\ (AfterInitialize /\ last.preApps # <<>>) =>
          /\ ~last.handshake
          /\ Len(_apps) = 1 /\ _apps[1].id = last.preApps[1].id
          /\ Manager.app \in {last.pre.app, last.preApps[1].id}
          /\ last.cfg \in ValidConfigs => Manager.app = last.preApps[1].id

C1_Witness ==
    /\ AfterInitialize /\ last.cfg \in ValidConfigs /\ last.exc = "ok"
    /\ last.preApps # <<>> /\ last.pre.app # None
    /\ calls >= 2 /\ hsAttempts = 1 /\ ~hsFailed

\* C2: initialize with a configuration that lacks a required key raises
\* ValueError from the validation loop; no credential is built, no
\* handshake is invoked, and the manager and the registry are as before
C2_MissingKeyFailsEarly ==
    (AfterInitialize /\ ~AllPresent(last.cfg)) =>
        /\ last.exc = "ValueError" /\ last.cause = "missing_key"
        /\ ~last.certCalled /\ ~last.handshake
        /\ Manager = last.pre /\ _apps = last.preApps

C2_Witness ==
    /\ AfterInitialize /\ last.cfg.client_email = Absent
    /\ last.cfg.project_id = "P1" /\ last.cfg.private_key = "KEY"
    /\ last.exc = "ValueError" /\ Ready(last.pre)

\* C3 as stated: once initialize has succeeded, every later call, whatever
\* its configuration, succeeds at once without validating and changes
\* nothing
C3_AnyLaterCallSucceeds ==
    (AfterInitialize /\ Ready(last.pre)) =>
        /\ last.exc = "ok" /\ ~last.certCalled /\ ~last.handshake
        /\ Manager = last.pre

\* C3 amended: once initialize has succeeded, a later call invokes no
\* handshake and leaves the manager and the registry as they were; it
\* succeeds when its configuration has the three keys and a private key the
\* certificate accepts, and raises ValueError otherwise
C3_LaterCallNoReauth ==
    (AfterInitialize /\ Ready(last.pre)) =>
        /\ ~last.handshake
        /\ Manager = last.pre /\ _apps = last.preApps
        /\ last.exc = IF AllPresent(last.cfg) /\ last.cfg.private_key = "KEY"
                      THEN "ok" ELSE "ValueError"

C3_Witness ==
    /\ AfterInitialize /\ Ready(last.pre) /\ last.exc = "ok"
    /\ last.cfg.project_id # _apps[1].project

\* C4: after an initialize call that fails on a manager that held nothing,
\* app, firestore_client and realtime_db are all still None
C4_FailureLeavesUninitialized ==
    (AfterInitialize /\ last.exc # "ok" /\ Handle(last.pre) = NoHandle) =>
        Handle(Manager) = NoHandle

\* C5: failures with different causes among a missing key, a credential
\* the certificate rejects and a refused handshake raise different
\* exception types
C5_FailuresDistinguishable ==
    \A p \in seen, q \in seen :
        (/\ p[1] \in {"missing_key", "certificate", "handshake"}
         /\ q[1] \in {"missing_key", "certificate", "handshake"}
         /\ p[1] # q[1]) => p[2] # q[2]

\* C6: initialize with a configuration in which a required field is present
\* but empty fails at validation: no credential is built and no handshake
\* is invoked
C6_EmptyFieldFailsValidation ==
    (AfterInitialize /\ HasEmpty(last.cfg)) =>
        /\ last.exc = "ValueError"
        /\ ~last.certCalled /\ ~last.handshake

\* C7: every FirebaseManager() returns the one instance, and a construction
\* after the first leaves app, firestore_client, realtime_db and _listeners
\* as they were
C7_ConstructOnce ==
    /\ Len(objs) <= 1
    /\ last.op = "construct" =>
          /\ last.ret = 1 /\ _instance = 1
          /\ last.pre._initialized => Manager = last.pre

C7_Witness ==
    /\ last.op = "construct" /\ Ready(last.pre)
    /\ last.pre._listeners # <<>>

\* C10: when initialize(config) returns success, the registered app the
\* manager holds was created for config's project_id
C10_SuccessMatchesConfig ==
    (AfterInitialize /\ last.exc = "ok") =>
        /\ Manager.app = _apps[1].id
        /\ _apps[1].project = last.cfg.project_id

\* C8: with threads calling initialize concurrently with valid credentials,
\* initialize_app is invoked at most once, no caller ends with an
\* exception, and self.app is written by one caller only
C8_OneHandshakeUnderRace ==
    /\ hsAttempts <= 1
    /\ \A t \in Threads : pc[t] = "done" => loc[t].exc = "ok"
    /\ Cardinality({t \in Threads : loc[t].wrote}) <= 1

\* C9: with threads constructing FirebaseManager() concurrently, one object
\* is allocated, every thread obtains it, and the body of __init__ runs at
\* most once, so that what a thread's initialize has set stays set
C9_OneInstanceUnderRace ==
    /\ Len(objs) <= 1
    /\ \A t \in Threads, u \in Threads :
          (loc[t].self # None /\ loc[u].self # None) => loc[t].self = loc[u].self
    /\ Cardinality({t \in Threads : loc[t].didInit}) <= 1
    /\ \A t \in Threads :
          (pc[t] = "done" /\ loc[t].exc = "ok") => Ready(objs[loc[t].self])

====
